---------------------------- MODULE Spec2Model ----------------------------
(***************************************************************************)
(* A model of the CareerHarvester backend:                                 *)
(*   backend/resume_parser.py  text extraction (PDF, DOCX, text files)     *)
(*   backend/agent.py          model-output normalisation                  *)
(*   backend/app.py            the HTTP handlers                           *)
(*                                                                         *)
(* A Python str is a sequence of Unicode code points and a Python bytes    *)
(* object a sequence of numbers 0..255.  Each behaviour executes one call  *)
(* of one entry point (op), chosen with its arguments in Init.             *)
(***************************************************************************)
EXTENDS Integers, Sequences, FiniteSets, TLC

VARIABLES
    byteorder,      \* sys.byteorder of the interpreter: "little" or "big"
    op,             \* the function under execution
    pc,             \* the position in it
    filename,       \* parse_resume: filename
    mime_type,      \* parse_resume: mime_type (NoneValue for None)
    file_content,   \* the bytes argument
    source,         \* the text and the encoding file_content was written from
    pdf_view,       \* what PyPDF2 makes of file_content
    docx_view,      \* what python-docx makes of file_content
    branch,         \* the arm of parse_resume's if/elif chain that was entered
    enc_idx,        \* extract_text_from_txt: index of the encoding being tried
    hashseed,       \* the seed of the interpreter's hash() (PYTHONHASHSEED)
    request,        \* the HTTP request of a handler of app.py
    resume_text,    \* the resume text an agent of agent.py is given
    job_description,\* the job description a match analysis works on
    prompt,         \* the texts embedded in the prompt sent to the model
    reply,          \* what the external model does when it is called
    calls,          \* how often the external model has been called
    result_text,    \* the text taken from the model's response (<<>> also
                    \* stands for the None of a response without text)
    result_json,    \* the value json.loads made of it
    jobs,           \* search_jobs: the entries being enumerated
    idx,            \* search_jobs: the index of the next entry
    processed_jobs, \* search_jobs: the entries processed so far
    outcome         \* the call's result: [kind |-> "return", value |-> v],
                    \* a raised exception, or an HTTP response

\* the state of the text extractor
parserVars == <<filename, mime_type, file_content, source, pdf_view, docx_view,
                branch, enc_idx>>

\* the state of the agents and handlers
agentVars == <<request, resume_text, job_description, prompt, reply, calls,
               result_text, result_json, jobs, idx, processed_jobs>>

vars == <<byteorder, hashseed, op, pc, parserVars, agentVars, outcome>>

-----------------------------------------------------------------------------
(* Bounds of the inputs. *)

\* longest raw byte string handed to extract_text_from_txt
MaxBytes == 2
\* longest source text that is encoded and handed to extract_text_from_txt
MaxTextLen == 2
\* most pages of a PDF
MaxPages == 2
\* most paragraphs of a DOCX
MaxParas == 2
\* most cells of the table row of a DOCX
MaxCells == 2
\* most entries under the jobs key of a model response
MaxJobs == 2

-----------------------------------------------------------------------------
(* Strings. *)

NoneValue == "None"

RECURSIVE Concat(_)
\* the concatenation of a sequence of strings
Concat(ss) == IF ss = <<>> THEN <<>> ELSE Head(ss) \o Concat(Tail(ss))

RECURSIVE Join(_, _)
\* sep.join(parts)
Join(sep, parts) ==
    IF parts = <<>> THEN <<>>
    ELSE IF Len(parts) = 1 THEN parts[1]
    ELSE parts[1] \o sep \o Join(sep, Tail(parts))

\* str.isspace() of one code point
IsSpace(c) ==
    \/ c \in 9..13
    \/ c \in 28..32
    \/ c \in {133, 160, 5760, 8232, 8233, 8239, 8287, 12288}
    \/ c \in 8192..8202

RECURSIVE LStrip(_)
LStrip(s) == IF s # <<>> /\ IsSpace(Head(s)) THEN LStrip(Tail(s)) ELSE s

RECURSIVE RStrip(_)
RStrip(s) ==
    IF s # <<>> /\ IsSpace(s[Len(s)]) THEN RStrip(SubSeq(s, 1, Len(s) - 1)) ELSE s

\* str.strip()
Strip(s) == RStrip(LStrip(s))

\* str.lower() of one code point (ASCII letters; the filenames and platform
\* names of the model are ASCII)
LowerChar(c) == IF c \in 65..90 THEN c + 32 ELSE c

\* str.lower()
Lower(s) == [i \in 1..Len(s) |-> LowerChar(s[i])]

\* str.endswith(suffix)
EndsWith(s, suffix) ==
    /\ Len(suffix) <= Len(s)
    /\ SubSeq(s, Len(s) - Len(suffix) + 1, Len(s)) = suffix

\* sub in s, for strings
Contains(s, sub) ==
    \E i \in 0..(Len(s) - Len(sub)) : SubSeq(s, i + 1, i + Len(sub)) = sub

-----------------------------------------------------------------------------
(* The codecs bytes.decode and str.encode use.  A decoding is              *)
(* [ok |-> TRUE, text |-> t], or [ok |-> FALSE, text |-> <<>>] for a       *)
(* UnicodeDecodeError.                                                     *)

DecodeError == [ok |-> FALSE, text |-> <<>>]

Decoded(t) == [ok |-> TRUE, text |-> t]

\* the length of the UTF-8 sequence a lead byte starts; 0: no lead byte
Utf8Need(b) ==
    IF b < 128 THEN 1
    ELSE IF b \in 194..223 THEN 2
    ELSE IF b \in 224..239 THEN 3
    ELSE IF b \in 240..244 THEN 4
    ELSE 0

\* whether c may follow the lead byte b (no overlong form, no surrogate,
\* nothing above U+10FFFF)
Utf8SecondOK(b, c) ==
    IF b = 224 THEN c \in 160..191
    ELSE IF b = 237 THEN c \in 128..159
    ELSE IF b = 240 THEN c \in 144..191
    ELSE IF b = 244 THEN c \in 128..143
    ELSE c \in 128..191

\* how many bytes from bs[i] on form a valid start of one UTF-8 sequence
Utf8Prefix(bs, i) ==
    LET n == Utf8Need(bs[i])
        cont(j) == j <= Len(bs) /\ bs[j] \in 128..191
    IN  IF n <= 1 THEN 1
        ELSE IF ~(i + 1 <= Len(bs) /\ Utf8SecondOK(bs[i], bs[i + 1])) THEN 1
        ELSE IF n = 2 \/ ~cont(i + 2) THEN 2
        ELSE IF n = 3 \/ ~cont(i + 3) THEN 3
        ELSE 4

\* the code point of the complete n-byte sequence at bs[i]
Utf8CodePoint(bs, i, n) ==
    IF n = 1 THEN bs[i]
    ELSE IF n = 2 THEN (bs[i] - 192) * 64 + (bs[i + 1] - 128)
    ELSE IF n = 3 THEN (bs[i] - 224) * 4096 + (bs[i + 1] - 128) * 64
                       + (bs[i + 2] - 128)
    ELSE (bs[i] - 240) * 262144 + (bs[i + 1] - 128) * 4096
         + (bs[i + 2] - 128) * 64 + (bs[i + 3] - 128)

RECURSIVE Utf8From(_, _, _)
\* bs[i..].decode('utf-8'), with errors='replace' when replace
Utf8From(bs, i, replace) ==
    IF i > Len(bs) THEN Decoded(<<>>)
    ELSE LET n == Utf8Need(bs[i])
             k == Utf8Prefix(bs, i)
         IN  IF n > 0 /\ k = n
             THEN LET rest == Utf8From(bs, i + n, replace)
                  IN  IF rest.ok
                      THEN Decoded(<<Utf8CodePoint(bs, i, n)>> \o rest.text)
                      ELSE DecodeError
             ELSE IF replace
             THEN Decoded(<<65533>> \o Utf8From(bs, i + k, replace).text)
             ELSE DecodeError

\* one UTF-16 code unit at bs[i], bs[i+1]
Utf16Unit(bs, i, little) ==
    IF little THEN bs[i] + 256 * bs[i + 1] ELSE 256 * bs[i] + bs[i + 1]

RECURSIVE Utf16From(_, _, _)
Utf16From(bs, i, little) ==
    IF i > Len(bs) THEN Decoded(<<>>)
    ELSE IF i + 1 > Len(bs) THEN DecodeError          \* truncated data
    ELSE LET u == Utf16Unit(bs, i, little)
         IN  IF u \in 55296..56319                    \* a high surrogate
             THEN IF i + 3 > Len(bs) THEN DecodeError
                  ELSE LET v == Utf16Unit(bs, i + 2, little)
                           rest == Utf16From(bs, i + 4, little)
                       IN  IF v \in 56320..57343 /\ rest.ok
                           THEN Decoded(<<65536 + (u - 55296) * 1024
                                          + (v - 56320)>> \o rest.text)
                           ELSE DecodeError
             ELSE IF u \in 56320..57343 THEN DecodeError   \* a lone low one
             ELSE LET rest == Utf16From(bs, i + 2, little)
                  IN  IF rest.ok THEN Decoded(<<u>> \o rest.text)
                      ELSE DecodeError

\* bs.decode('utf-16'): a byte order mark selects the byte order and is
\* dropped; without one the interpreter's native order is used
Utf16Decode(bs, order) ==
    IF Len(bs) >= 2 /\ bs[1] = 255 /\ bs[2] = 254 THEN Utf16From(bs, 3, TRUE)
    ELSE IF Len(bs) >= 2 /\ bs[1] = 254 /\ bs[2] = 255 THEN Utf16From(bs, 3, FALSE)
    ELSE Utf16From(bs, 1, order = "little")

\* bs.decode('latin-1'): every byte is the code point of its value
Latin1Decode(bs) == Decoded(bs)

\* the code points of the bytes 128..159 in Windows-1252; -1: not assigned
Cp1252High ==
    <<8364, -1, 8218, 402, 8222, 8230, 8224, 8225, 710, 8240, 352, 8249, 338,
      -1, 381, -1, -1, 8216, 8217, 8220, 8221, 8226, 8211, 8212, 732, 8482,
      353, 8250, 339, -1, 382, 376>>

Cp1252Char(b) == IF b \in 128..159 THEN Cp1252High[b - 127] ELSE b

\* bs.decode('cp1252')
Cp1252Decode(bs) ==
    IF \E i \in 1..Len(bs) : Cp1252Char(bs[i]) = -1 THEN DecodeError
    ELSE Decoded([i \in 1..Len(bs) |-> Cp1252Char(bs[i])])

\* a mutant of encodings: Latin-1 is tried before UTF-16
encodingsLatin1Early == <<"utf-8", "latin-1", "utf-16", "cp1252">>

\* the encodings list of extract_text_from_txt
encodings == <<"utf-8", "utf-16", "latin-1", "cp1252">>

\* bs.decode(encoding)
Decode(bs, encoding, order) ==
    CASE encoding = "utf-8" -> Utf8From(bs, 1, FALSE)
      [] encoding = "utf-16" -> Utf16Decode(bs, order)
      [] encoding = "latin-1" -> Latin1Decode(bs)
      [] encoding = "cp1252" -> Cp1252Decode(bs)

\* one code point in UTF-8
Utf8EncodeChar(c) ==
    IF c < 128 THEN <<c>>
    ELSE IF c < 2048 THEN <<192 + (c \div 64), 128 + (c % 64)>>
    ELSE IF c < 65536
    THEN <<224 + (c \div 4096), 128 + ((c \div 64) % 64), 128 + (c % 64)>>
    ELSE <<240 + (c \div 262144), 128 + ((c \div 4096) % 64),
           128 + ((c \div 64) % 64), 128 + (c % 64)>>

\* one UTF-16 code unit as two bytes
Utf16EncodeUnit(u, little) ==
    IF little THEN <<u % 256, u \div 256>> ELSE <<u \div 256, u % 256>>

\* one code point in UTF-16
Utf16EncodeChar(c, little) ==
    IF c < 65536 THEN Utf16EncodeUnit(c, little)
    ELSE Utf16EncodeUnit(55296 + ((c - 65536) \div 1024), little)
         \o Utf16EncodeUnit(56320 + ((c - 65536) % 1024), little)

\* whether text.encode(encoding) succeeds
Encodable(t, encoding) ==
    CASE encoding = "latin-1" -> \A i \in 1..Len(t) : t[i] < 256
      [] encoding = "cp1252" ->
           \A i \in 1..Len(t) : \E b \in 0..255 :
               Cp1252Char(b) = t[i]
      [] OTHER -> \A i \in 1..Len(t) : t[i] \notin 55296..57343

\* text.encode(encoding); 'utf-16' writes a byte order mark and then the
\* native byte order
Encode(t, encoding, order) ==
    CASE encoding = "utf-8" ->
           Concat([i \in 1..Len(t) |-> Utf8EncodeChar(t[i])])
      [] encoding = "utf-16" ->
           Utf16EncodeUnit(65279, order = "little")
           \o Concat([i \in 1..Len(t) |-> Utf16EncodeChar(t[i], order = "little")])
      [] encoding = "latin-1" -> t
      [] encoding = "cp1252" ->
           [i \in 1..Len(t) |-> CHOOSE b \in 0..255 : Cp1252Char(b) = t[i]]

-----------------------------------------------------------------------------
(* backend/resume_parser.py *)

\* the result of a call: a returned value or a raised exception
Return(v) == [kind |-> "return", value |-> v]

Raise(exc) == [kind |-> exc, value |-> <<>>]

NoOutcome == [kind |-> "none", value |-> <<>>]

\* "[PDF contains no extractable text - may be image-based]"
PdfSentinel ==
    <<91, 80, 68, 70, 32, 99, 111, 110, 116, 97, 105, 110, 115, 32, 110, 111,
      32, 101, 120, 116, 114, 97, 99, 116, 97, 98, 108, 101, 32, 116, 101, 120,
      116, 32, 45, 32, 109, 97, 121, 32, 98, 101, 32, 105, 109, 97, 103, 101,
      45, 98, 97, 115, 101, 100, 93>>

\* "[Document contains no extractable text]"
DocxSentinel ==
    <<91, 68, 111, 99, 117, 109, 101, 110, 116, 32, 99, 111, 110, 116, 97, 105,
      110, 115, 32, 110, 111, 32, 101, 120, 116, 114, 97, 99, 116, 97, 98, 108,
      101, 32, 116, 101, 120, 116, 93>>

\* What a library makes of the bytes: [ok |-> FALSE] when it raises (the
\* bytes are no such document, or the library is missing), else the
\* document it read.  A page is the string page.extract_text() returns
\* (<<>> for a page without text); a table is a sequence of rows, a row a
\* sequence of cell texts.
Unreadable == [ok |-> FALSE, pages |-> <<>>, paragraphs |-> <<>>, tables |-> <<>>]

PdfDocument(pages) ==
    [ok |-> TRUE, pages |-> pages, paragraphs |-> <<>>, tables |-> <<>>]

DocxDocument(paragraphs, tables) ==
    [ok |-> TRUE, pages |-> <<>>, paragraphs |-> paragraphs, tables |-> tables]

\* a mutant of extract_text_from_pdf: an empty document is an error
extract_text_from_pdf_raising(view) ==
    IF ~view.ok THEN Raise("RuntimeError")
    ELSE LET text_parts == SelectSeq(view.pages, LAMBDA p : p # <<>>)
             full_text == Join(<<10, 10>>, text_parts)
         IN  IF Strip(full_text) = <<>> THEN Raise("RuntimeError")
             ELSE Return(Strip(full_text))

extract_text_from_pdf(view) ==
    IF ~view.ok THEN Raise("RuntimeError")
    ELSE LET text_parts == SelectSeq(view.pages, LAMBDA p : p # <<>>)
             full_text == Join(<<10, 10>>, text_parts)
         IN  IF Strip(full_text) = <<>> THEN Return(PdfSentinel)
             ELSE Return(Strip(full_text))

\* " | ".join(cell.text.strip() for cell in row.cells if cell.text.strip())
RowText(row) ==
    Join(<<32, 124, 32>>,
         SelectSeq([i \in 1..Len(row) |-> Strip(row[i])], LAMBDA c : c # <<>>))

\* the row texts of every table, the empty ones left out
TableParts(tables) ==
    SelectSeq(Concat([t \in 1..Len(tables) |->
                         [r \in 1..Len(tables[t]) |-> RowText(tables[t][r])]]),
              LAMBDA x : x # <<>>)

extract_text_from_docx(view) ==
    IF ~view.ok THEN Raise("RuntimeError")
    ELSE LET text_parts ==
                 SelectSeq(view.paragraphs, LAMBDA p : Strip(p) # <<>>)
                 \o TableParts(view.tables)
             full_text == Join(<<10>>, text_parts)
         IN  IF Strip(full_text) = <<>> THEN Return(DocxSentinel)
             ELSE Return(Strip(full_text))

PdfMime == "application/pdf"

DocxMime == "application/vnd.openxmlformats-officedocument.wordprocessingml.document"

DotPdf == <<46, 112, 100, 102>>                              \* ".pdf"
DotDocx == <<46, 100, 111, 99, 120>>                         \* ".docx"
DotDoc == <<46, 100, 111, 99>>                               \* ".doc"
DotTxt == <<46, 116, 120, 116>>                              \* ".txt"
DotMd == <<46, 109, 100>>                                    \* ".md"
DotMarkdown == <<46, 109, 97, 114, 107, 100, 111, 119, 110>> \* ".markdown"

\* a mutant of ParseResumeBranch: the filename is not lower-cased
ParseResumeBranchCaseSensitive(name, mime) ==
    IF EndsWith(name, DotPdf) \/ mime = PdfMime THEN "pdf"
    ELSE IF EndsWith(name, DotDocx) \/ mime = DocxMime THEN "docx"
    ELSE IF EndsWith(name, DotDoc) THEN "doc"
    ELSE IF \/ EndsWith(name, DotTxt)
            \/ EndsWith(name, DotMd)
            \/ EndsWith(name, DotMarkdown) THEN "text"
    ELSE "unknown"

\* a mutant of ParseResumeBranch: the legacy .doc test comes first
ParseResumeBranchDocFirst(name, mime) ==
    LET filename_lower == Lower(name)
    IN  IF EndsWith(filename_lower, DotDoc) THEN "doc"
        ELSE IF EndsWith(filename_lower, DotPdf) \/ mime = PdfMime THEN "pdf"
        ELSE IF EndsWith(filename_lower, DotDocx) \/ mime = DocxMime THEN "docx"
        ELSE IF \/ EndsWith(filename_lower, DotTxt)
                \/ EndsWith(filename_lower, DotMd)
                \/ EndsWith(filename_lower, DotMarkdown) THEN "text"
        ELSE "unknown"

\* the arm of parse_resume's if/elif chain a call enters
ParseResumeBranch(name, mime) ==
    LET filename_lower == Lower(name)
    IN  IF EndsWith(filename_lower, DotPdf) \/ mime = PdfMime THEN "pdf"
        ELSE IF EndsWith(filename_lower, DotDocx) \/ mime = DocxMime THEN "docx"
        ELSE IF EndsWith(filename_lower, DotDoc) THEN "doc"
        ELSE IF \/ EndsWith(filename_lower, DotTxt)
                \/ EndsWith(filename_lower, DotMd)
                \/ EndsWith(filename_lower, DotMarkdown) THEN "text"
        ELSE "unknown"

\* parse_resume up to the call of an extractor: the branch is entered; the
\* .doc arm raises at once
Dispatch ==
    /\ pc = "dispatch"
    /\ branch' = ParseResumeBranch(filename, mime_type)
    /\ IF branch' = "doc"
       THEN /\ outcome' = Raise("ValueError")
            /\ pc' = "done"
       ELSE /\ outcome' = outcome
            /\ pc' = CASE branch' = "pdf" -> "extract_pdf"
                       [] branch' = "docx" -> "extract_docx"
                       [] OTHER -> "extract_txt"
    /\ UNCHANGED <<byteorder, hashseed, op, filename, mime_type, file_content,
                   source, pdf_view, docx_view, enc_idx, agentVars>>

\* extract_text_from_pdf, called directly or by parse_resume, which passes
\* the result or the RuntimeError on
ExtractPdf ==
    /\ pc = "extract_pdf"
    /\ outcome' = extract_text_from_pdf(pdf_view)
    /\ pc' = "done"
    /\ UNCHANGED <<byteorder, hashseed, op, parserVars, agentVars>>

\* extract_text_from_docx, called directly or by parse_resume
ExtractDocx ==
    /\ pc = "extract_docx"
    /\ outcome' = extract_text_from_docx(docx_view)
    /\ pc' = "done"
    /\ UNCHANGED <<byteorder, hashseed, op, parserVars, agentVars>>

\* a mutant of NextEncoding: the loop gives up after the first encoding
NextEncodingGiveUp(i) == Len(encodings) + 1

\* the loop of extract_text_from_txt goes on with the next encoding
NextEncoding(i) == i + 1

\* One pass of the loop of extract_text_from_txt: the encoding at enc_idx
\* is tried; a UnicodeDecodeError goes on to the next one.  Past the end of
\* the list the bytes are decoded as UTF-8 with errors='replace'.  No other
\* exception can leave the function, so the except arm of parse_resume's
\* last branch never runs.
TryEncoding ==
    /\ pc = "extract_txt"
    /\ IF enc_idx > Len(encodings)
       THEN /\ outcome' = Return(Strip(Utf8From(file_content, 1, TRUE).text))
            /\ pc' = "done"
            /\ enc_idx' = enc_idx
       ELSE LET d == Decode(file_content, encodings[enc_idx], byteorder)
            IN  IF d.ok
                THEN /\ outcome' = Return(Strip(d.text))
                     /\ pc' = "done"
                     /\ enc_idx' = enc_idx
                ELSE /\ outcome' = outcome
                     /\ pc' = pc
                     /\ enc_idx' = NextEncoding(enc_idx)
    /\ UNCHANGED <<byteorder, hashseed, op, filename, mime_type, file_content,
                   source, pdf_view, docx_view, branch, agentVars>>

-----------------------------------------------------------------------------
(* JSON.  A value is [t |-> type, v |-> content]: an object's content is   *)
(* a function from its keys, an array's a sequence, a string's its code    *)
(* points, a number's an integer.                                          *)

JNull == [t |-> "null", v |-> <<>>]

JBool(b) == [t |-> "bool", v |-> b]

JNum(n) == [t |-> "num", v |-> n]

JStr(s) == [t |-> "str", v |-> s]

JArr(a) == [t |-> "arr", v |-> a]

JObj(f) == [t |-> "obj", v |-> f]

\* s[i], and -1 past the end of s
At(s, i) == IF i \in 1..Len(s) THEN s[i] ELSE -1

RECURSIVE SkipWs(_, _)
\* the first index from i on that holds no JSON whitespace
SkipWs(s, i) ==
    IF At(s, i) \in {9, 10, 13, 32} THEN SkipWs(s, i + 1) ELSE i

RECURSIVE StringEnd(_, _)
\* the index of the quote that closes a string literal, 0 when there is
\* none.  Control characters are rejected as json.loads rejects them;
\* escape sequences are not modelled (no text of the model holds a
\* backslash) and rejected too.
StringEnd(s, i) ==
    IF i > Len(s) THEN 0
    ELSE IF s[i] = 34 THEN i
    ELSE IF s[i] < 32 \/ s[i] = 92 THEN 0
    ELSE StringEnd(s, i + 1)

RECURSIVE DigitsEnd(_, _)
\* the first index from i on that holds no digit
DigitsEnd(s, i) == IF At(s, i) \in 48..57 THEN DigitsEnd(s, i + 1) ELSE i

RECURSIVE DigitsValue(_)
DigitsValue(d) ==
    IF d = <<>> THEN 0
    ELSE 10 * DigitsValue(SubSeq(d, 1, Len(d) - 1)) + (d[Len(d)] - 48)

ParseFail == [ok |-> FALSE, val |-> JNull, next |-> 0]

Parsed(v, n) == [ok |-> TRUE, val |-> v, next |-> n]

\* the string literal whose opening quote is s[i]
ParseString(s, i) ==
    LET e == StringEnd(s, i + 1)
    IN  IF e = 0 THEN ParseFail ELSE Parsed(JStr(SubSeq(s, i + 1, e - 1)), e + 1)

\* the integer at s[i]: an optional minus, then 0 or digits without a
\* leading 0 (fractions and exponents are not modelled and rejected)
ParseNumber(s, i) ==
    LET j == IF s[i] = 45 THEN i + 1 ELSE i
        e == IF At(s, j) = 48 THEN j + 1 ELSE DigitsEnd(s, j)
        n == DigitsValue(SubSeq(s, j, e - 1))
    IN  IF e = j \/ At(s, e) \in {46, 69, 101} THEN ParseFail
        ELSE Parsed(JNum(IF j > i THEN 0 - n ELSE n), e)

\* whether the word w stands at s[i]
WordAt(s, i, w) == i + Len(w) - 1 <= Len(s) /\ SubSeq(s, i, i + Len(w) - 1) = w

RECURSIVE ParseValue(_, _), ParseMembers(_, _, _), ParseElements(_, _, _)

\* the JSON value that starts at or after s[i]
ParseValue(s, i) ==
    LET j == SkipWs(s, i)
        c == At(s, j)
    IN  IF c = 123 THEN
            IF At(s, SkipWs(s, j + 1)) = 125
            THEN Parsed(JObj(<<>>), SkipWs(s, j + 1) + 1)
            ELSE ParseMembers(s, j + 1, <<>>)
        ELSE IF c = 91 THEN
            IF At(s, SkipWs(s, j + 1)) = 93
            THEN Parsed(JArr(<<>>), SkipWs(s, j + 1) + 1)
            ELSE ParseElements(s, j + 1, <<>>)
        ELSE IF c = 34 THEN ParseString(s, j)
        ELSE IF c = 45 \/ c \in 48..57 THEN ParseNumber(s, j)
        ELSE IF WordAt(s, j, <<110, 117, 108, 108>>) THEN Parsed(JNull, j + 4)
        ELSE IF WordAt(s, j, <<116, 114, 117, 101>>) THEN Parsed(JBool(TRUE), j + 4)
        ELSE IF WordAt(s, j, <<102, 97, 108, 115, 101>>)
        THEN Parsed(JBool(FALSE), j + 5)
        ELSE ParseFail

\* the members of an object from s[i] on, added to acc; a key that comes
\* again replaces the earlier one
ParseMembers(s, i, acc) ==
    LET j == SkipWs(s, i)
        key == IF At(s, j) = 34 THEN ParseString(s, j) ELSE ParseFail
        colon == SkipWs(s, key.next)
        val == IF key.ok /\ At(s, colon) = 58 THEN ParseValue(s, colon + 1)
               ELSE ParseFail
        after == SkipWs(s, val.next)
        members == (key.val.v :> val.val) @@ acc
    IN  IF ~val.ok THEN ParseFail
        ELSE IF At(s, after) = 44 THEN ParseMembers(s, after + 1, members)
        ELSE IF At(s, after) = 125 THEN Parsed(JObj(members), after + 1)
        ELSE ParseFail

\* the elements of an array from s[i] on, appended to acc
ParseElements(s, i, acc) ==
    LET val == ParseValue(s, i)
        after == SkipWs(s, val.next)
    IN  IF ~val.ok THEN ParseFail
        ELSE IF At(s, after) = 44
        THEN ParseElements(s, after + 1, Append(acc, val.val))
        ELSE IF At(s, after) = 93 THEN Parsed(JArr(Append(acc, val.val)), after + 1)
        ELSE ParseFail

\* json.loads(s): [ok |-> TRUE, val |-> value], or ok = FALSE for a
\* JSONDecodeError (no value, or text after it)
JsonLoads(s) ==
    LET r == ParseValue(s, 1)
    IN  IF r.ok /\ SkipWs(s, r.next) > Len(s) THEN [ok |-> TRUE, val |-> r.val]
        ELSE [ok |-> FALSE, val |-> JNull]

RECURSIVE Digits(_)
\* the decimal digits of a natural number
Digits(n) == IF n < 10 THEN <<48 + n>> ELSE Digits(n \div 10) \o <<48 + (n % 10)>>

\* str(n) of an integer
IntStr(n) == IF n < 0 THEN <<45>> \o Digits(0 - n) ELSE Digits(n)

RECURSIVE SetToSeq(_)
SetToSeq(S) ==
    IF S = {} THEN <<>>
    ELSE LET x == CHOOSE y \in S : TRUE IN <<x>> \o SetToSeq(S \ {x})

RECURSIVE JsonDumps(_)
\* json.dumps(v), keys in some fixed order (strings are written without
\* escapes: no string of the model needs one)
JsonDumps(v) ==
    CASE v.t = "null" -> <<110, 117, 108, 108>>
      [] v.t = "bool" -> IF v.v THEN <<116, 114, 117, 101>>
                         ELSE <<102, 97, 108, 115, 101>>
      [] v.t = "num" -> IntStr(v.v)
      [] v.t = "str" -> <<34>> \o v.v \o <<34>>
      [] v.t = "arr" ->
           <<91>> \o Join(<<44, 32>>, [i \in 1..Len(v.v) |-> JsonDumps(v.v[i])])
           \o <<93>>
      [] v.t = "obj" ->
           LET keys == SetToSeq(DOMAIN v.v)
           IN  <<123>>
               \o Join(<<44, 32>>,
                       [i \in 1..Len(keys) |->
                           <<34>> \o keys[i] \o <<34, 58, 32>>
                           \o JsonDumps(v.v[keys[i]])])
               \o <<125>>

-----------------------------------------------------------------------------
(* backend/agent.py *)

KeyJobs == <<106, 111, 98, 115>>                           \* "jobs"
KeyLink == <<108, 105, 110, 107>>                          \* "link"
KeyPlatform == <<112, 108, 97, 116, 102, 111, 114, 109>>   \* "platform"
KeyId == <<105, 100>>                                      \* "id"
KeyName == <<110, 97, 109, 101>>                           \* "name"
KeySummary == <<115, 117, 109, 109, 97, 114, 121>>         \* "summary"
KeySkills == <<115, 107, 105, 108, 108, 115>>              \* "skills"
KeySuggestedRoles ==                                       \* "suggestedRoles"
    <<115, 117, 103, 103, 101, 115, 116, 101, 100, 82, 111, 108, 101, 115>>

Other == <<79, 116, 104, 101, 114>>                        \* "Other"
Unknown == <<85, 110, 107, 110, 111, 119, 110>>            \* "Unknown"
Fence == <<96, 96, 96>>                                    \* "```"
JsonFence == <<96, 96, 96, 106, 115, 111, 110>>            \* "```json"

\* what the external model does when it is called: it raises, or it
\* answers with a text, or with no text at all (no output_text item;
\* message.content is None)
ApiError == [kind |-> "error", text |-> <<>>, fence |-> "none", content |-> JNull]

NoText == [kind |-> "none", text |-> <<>>, fence |-> "none", content |-> JNull]

\* a text that was not written from a JSON value of the model
TextReply(t) == [kind |-> "text", text |-> t, fence |-> "none", content |-> JNull]

\* the JSON text of the value v, inside the wrapping the model chose:
\* "plain" for none, "json" for a ```json fence, "bare" for a ``` fence,
\* "prose" for a ```json fence with text before and after it
Wrap(fence, v) ==
    CASE fence = "plain" -> JsonDumps(v)
      [] fence = "json" -> JsonFence \o <<10>> \o JsonDumps(v) \o <<10>> \o Fence
      [] fence = "bare" -> Fence \o <<10>> \o JsonDumps(v) \o <<10>> \o Fence
      [] fence = "prose" ->
           <<72, 101, 114, 101, 58, 32>> \o JsonFence \o <<10>> \o JsonDumps(v)
           \o <<10>> \o Fence \o <<10>>

JsonReply(fence, v) ==
    [kind |-> "text", text |-> Wrap(fence, v), fence |-> fence, content |-> v]

\* dict.get(key, default)
Get(obj, key, default) == IF key \in DOMAIN obj.v THEN obj.v[key] ELSE default

\* s.split(sep)[0]: s up to the first sep, all of s when there is none
BeforeFirst(s, sep) ==
    IF Contains(s, sep)
    THEN LET i == CHOOSE k \in 0..(Len(s) - Len(sep)) :
                     /\ SubSeq(s, k + 1, k + Len(sep)) = sep
                     /\ \A m \in 0..(k - 1) : SubSeq(s, m + 1, m + Len(sep)) # sep
         IN  SubSeq(s, 1, i)
    ELSE s

\* s from the end of the first sep on (sep is in s)
AfterFirst(s, sep) == SubSeq(s, Len(BeforeFirst(s, sep)) + Len(sep) + 1, Len(s))

\* search_jobs, lines 153-156: the text between the first ```json, or else
\* the first ```, and the next ```
StripFence(text) ==
    IF Contains(text, JsonFence) THEN BeforeFirst(AfterFirst(text, JsonFence), Fence)
    ELSE IF Contains(text, Fence) THEN BeforeFirst(AfterFirst(text, Fence), Fence)
    ELSE text

\* search_jobs, lines 166-178: the platform name a platform text is
\* normalised to
NormalisePlatform(platform) ==
    LET lower == Lower(platform)
    IN  IF Contains(lower, <<49, 48, 52>>) THEN <<49, 48, 52>>              \* 104
        ELSE IF Contains(lower, <<49, 49, 49, 49>>) THEN <<49, 49, 49, 49>> \* 1111
        ELSE IF Contains(lower, <<99, 97, 107, 101>>)                       \* cake
        THEN <<67, 97, 107, 101, 82, 101, 115, 117, 109, 101>>
        ELSE IF Contains(lower, <<108, 105, 110, 107, 101, 100, 105, 110>>) \* linkedin
        THEN <<76, 105, 110, 107, 101, 100, 73, 110>>
        ELSE IF Contains(lower, <<105, 110, 100, 101, 101, 100>>)           \* indeed
        THEN Other
        ELSE Other

RECURSIVE Sum(_)
Sum(s) == IF s = <<>> THEN 0 ELSE Head(s) + Sum(Tail(s))

\* hash(v) of a hashable value.  The hash of a non-empty str depends on the
\* interpreter's seed and that of None on the build; an int is its own hash
\* (but hash(-1) is -2) and hash('') is 0.  The range is narrowed to -3..3,
\* so that different strings may share a hash as they may in Python.
Hash(v, seed) ==
    CASE v.t = "str" -> IF v.v = <<>> THEN 0
                        ELSE ((Sum(v.v) * (seed + 3) + Len(v.v)) % 7) - 3
      [] v.t = "num" -> IF v.v = -1 THEN -2 ELSE v.v
      [] v.t = "bool" -> IF v.v THEN 1 ELSE 0
      [] v.t = "null" -> seed + 2

\* a mutant of JobId: the index is left out
JobIdWithoutIndex(i, h) == <<106, 111, 98, 45>> \o IntStr(h)

\* the f-string "job-{idx}-{hash}"
JobId(i, h) == <<106, 111, 98, 45>> \o IntStr(i) \o <<45>> \o IntStr(h)

\* One pass of the loop of search_jobs (lines 163-180) for the entry job at
\* index i: the processed entry, or the exception the pass raises.  An
\* entry that is no dict has no get; a list or dict cannot be hashed; a
\* platform that is no str has no lower.
ProcessJob(job, i, seed) ==
    IF job.t # "obj" THEN Raise("AttributeError")
    ELSE LET link == Get(job, KeyLink, JStr(<<>>))
             platform == Get(job, KeyPlatform, JStr(Other))
         IN  IF link.t \in {"arr", "obj"} THEN Raise("TypeError")
             ELSE IF platform.t # "str" THEN Raise("AttributeError")
             ELSE Return(JObj((KeyId :> JStr(JobId(i, Hash(link, seed))))
                              @@ (KeyPlatform :> JStr(NormalisePlatform(platform.v)))
                              @@ job.v))

\* the values enumerate() draws from a JSON value: the elements of a list,
\* the keys of a dict, the characters of a str
Items(v) ==
    CASE v.t = "arr" -> v.v
      [] v.t = "obj" -> LET keys == SetToSeq(DOMAIN v.v)
                        IN  [i \in 1..Len(keys) |-> JStr(keys[i])]
      [] v.t = "str" -> [i \in 1..Len(v.v) |-> JStr(<<v.v[i]>>)]

\* a mutant of AfterModelError: the call is made again
AfterModelErrorRetry == "call"

\* search_jobs, lines 189-191, and analyze, lines 278-280: an exception
\* of the call is logged and raised again, which ends the request
AfterModelError == "done"

\* search_jobs, lines 129-149: the model is called with the web search
\* tool; an exception is logged and raised again; without a text the
\* result is the empty list
SearchCall ==
    /\ op = "search_jobs"
    /\ pc = "call"
    /\ calls' = calls + 1
    /\ IF reply.kind = "error"
       THEN /\ outcome' = Raise("APIError")
            /\ pc' = AfterModelError
            /\ result_text' = result_text
       ELSE IF reply.kind = "none" \/ reply.text = <<>>
       THEN /\ outcome' = Return(<<>>)
            /\ pc' = "done"
            /\ result_text' = result_text
       ELSE /\ outcome' = outcome
            /\ pc' = "parse"
            /\ result_text' = reply.text
    /\ UNCHANGED <<byteorder, hashseed, op, parserVars, request, resume_text,
                   job_description, prompt, reply, result_json, jobs, idx,
                   processed_jobs>>

\* search_jobs, lines 185-188: a JSONDecodeError is logged and the empty
\* list returned
SearchDecodeError == Return(<<>>)

\* search_jobs, lines 153-159: the fence is stripped and the text parsed;
\* a JSONDecodeError gives the empty list, every other exception is raised
\* again (a value that is no dict has no get; None, a number or a bool
\* cannot be enumerated)
SearchParse ==
    /\ op = "search_jobs"
    /\ pc = "parse"
    /\ result_text' = StripFence(result_text)
    /\ LET loaded == JsonLoads(Strip(result_text'))
           found == Get(loaded.val, KeyJobs, JArr(<<>>))
       IN  IF ~loaded.ok
           THEN /\ outcome' = SearchDecodeError
                /\ pc' = "done"
                /\ UNCHANGED <<result_json, jobs>>
           ELSE /\ result_json' = loaded.val
                /\ IF loaded.val.t # "obj"
                   THEN /\ outcome' = Raise("AttributeError")
                        /\ pc' = "done"
                        /\ jobs' = jobs
                   ELSE IF found.t \in {"null", "num", "bool"}
                   THEN /\ outcome' = Raise("TypeError")
                        /\ pc' = "done"
                        /\ jobs' = jobs
                   ELSE /\ outcome' = outcome
                        /\ pc' = "loop"
                        /\ jobs' = Items(found)
    /\ UNCHANGED <<byteorder, hashseed, op, parserVars, request, resume_text,
                   job_description, prompt, reply, calls, idx, processed_jobs>>

\* search_jobs, lines 163-183: the next entry is given its id and its
\* platform name; after the last one the list is returned
SearchLoop ==
    /\ op = "search_jobs"
    /\ pc = "loop"
    /\ IF idx = Len(jobs)
       THEN /\ outcome' = Return(processed_jobs)
            /\ pc' = "done"
            /\ UNCHANGED <<idx, processed_jobs>>
       ELSE LET job == ProcessJob(jobs[idx + 1], idx, hashseed)
            IN  IF job.kind = "return"
                THEN /\ processed_jobs' = Append(processed_jobs, job.value)
                     /\ idx' = idx + 1
                     /\ UNCHANGED <<outcome, pc>>
                ELSE /\ outcome' = job
                     /\ pc' = "done"
                     /\ UNCHANGED <<idx, processed_jobs>>
    /\ UNCHANGED <<byteorder, hashseed, op, parserVars, request, resume_text,
                   job_description, prompt, reply, calls, result_text,
                   result_json, jobs>>

\* ResumeAnalyzer.analyze, line 266
required_fields == <<KeyName, KeySummary, KeySkills, KeySuggestedRoles>>

\* a mutant of DefaultFor: only skills is taken for a list field
DefaultForSkillsOnly(field) ==
    IF field = KeySkills THEN JArr(<<>>) ELSE JStr(Unknown)

\* analyze, line 270: the value a missing field is given
DefaultFor(field) ==
    IF field \in {KeySkills, KeySuggestedRoles} THEN JArr(<<>>) ELSE JStr(Unknown)

\* analyze, lines 267-270, for a dict: every missing required field is set
FillRequired(profile) ==
    [k \in DOMAIN profile \cup {required_fields[i] : i \in 1..Len(required_fields)}
        |-> IF k \in DOMAIN profile THEN profile[k] ELSE DefaultFor(k)]

\* analyze, lines 267-272, for a value that is no dict.  None, a number
\* and a bool do not support "in"; a list or str that lacks a field
\* supports no assignment of it; one that holds all four fields gets as
\* far as profile.get, which it does not have.
ProfileError(profile) ==
    IF profile.t \in {"null", "num", "bool"} THEN Raise("TypeError")
    ELSE IF \A i \in 1..Len(required_fields) :
                IF profile.t = "str" THEN Contains(profile.v, required_fields[i])
                ELSE \E j \in 1..Len(profile.v) :
                        profile.v[j] = JStr(required_fields[i])
    THEN Raise("AttributeError")
    ELSE Raise("TypeError")

\* s[:n]
Take(s, n) == SubSeq(s, 1, IF Len(s) < n THEN Len(s) ELSE n)

\* the most characters of the resume in a profile analysis (line 223), of
\* the resume (lines 300, 344) and of the job description (lines 297, 341)
\* in a cover letter or a match analysis
AnalyzeLimit == 6000

ResumeLimit == 3000

JobLimit == 2000

\* "\n[Content truncated...]"
TruncationMarker ==
    <<10, 91, 67, 111, 110, 116, 101, 110, 116, 32, 116, 114, 117, 110, 99,
      97, 116, 101, 100, 46, 46, 46, 93>>

\* analyze, lines 223-224: the resume as the prompt holds it
TruncateResume(text) ==
    IF Len(text) > AnalyzeLimit
    THEN Take(text, AnalyzeLimit) \o TruncationMarker
    ELSE text

\* analyze, lines 222-262 and 278-280: the resume is truncated and put into
\* the prompt, and the model is called; an exception is logged and raised
\* again
AnalyzeCall ==
    /\ op = "analyze"
    /\ pc = "call"
    /\ prompt' = [job |-> <<>>, resume |-> TruncateResume(resume_text)]
    /\ calls' = calls + 1
    /\ IF reply.kind = "error"
       THEN /\ outcome' = Raise("APIError")
            /\ pc' = AfterModelError
            /\ result_text' = result_text
       ELSE /\ outcome' = outcome
            /\ pc' = "parse"
            /\ result_text' = reply.text
    /\ UNCHANGED <<byteorder, hashseed, op, parserVars, request, resume_text,
                   job_description, reply, result_json, jobs, idx,
                   processed_jobs>>

\* a mutant of AnalyzeDecodeError: a profile of defaults is returned
AnalyzeDecodeErrorDefaulted == Return(JObj(FillRequired(<<>>)))

\* analyze, lines 275-277: a JSONDecodeError is logged and a RuntimeError
\* raised in its place
AnalyzeDecodeError == Raise("RuntimeError")

\* analyze, lines 263-280: the text is parsed as it is; a JSONDecodeError
\* becomes a RuntimeError; json.loads(None) raises a TypeError, which is
\* raised again like every other exception
AnalyzeParse ==
    /\ op = "analyze"
    /\ pc = "parse"
    /\ pc' = "done"
    /\ IF reply.kind = "none"
       THEN /\ outcome' = Raise("TypeError")
            /\ result_json' = result_json
       ELSE LET loaded == JsonLoads(result_text)
            IN  IF ~loaded.ok
                THEN /\ outcome' = AnalyzeDecodeError
                     /\ result_json' = result_json
                ELSE IF loaded.val.t # "obj"
                THEN /\ outcome' = ProfileError(loaded.val)
                     /\ result_json' = loaded.val
                ELSE /\ outcome' = Return(JObj(FillRequired(loaded.val.v)))
                     /\ result_json' = JObj(FillRequired(loaded.val.v))
    /\ UNCHANGED <<byteorder, hashseed, op, parserVars, request, resume_text,
                   job_description, prompt, reply, calls, result_text, jobs, idx,
                   processed_jobs>>

\* JobMatchAnalyzer.analyze_match, lines 338-358: the prompt embeds the
\* first 2000 characters of the job description and the first 3000 of the
\* resume
MatchPrompt ==
    /\ op = "analyze_match"
    /\ pc = "prompt"
    /\ prompt' = [job |-> Take(job_description, JobLimit),
                  resume |-> Take(resume_text, ResumeLimit)]
    /\ pc' = "call"
    /\ UNCHANGED <<byteorder, hashseed, op, parserVars, request, resume_text,
                   job_description, reply, calls, result_text, result_json, jobs,
                   idx, processed_jobs, outcome>>

\* analyze_match, lines 360-370: the model is called and its text parsed;
\* nothing is caught
MatchCall ==
    /\ op = "analyze_match"
    /\ pc = "call"
    /\ calls' = calls + 1
    /\ pc' = "done"
    /\ IF reply.kind = "error"
       THEN /\ outcome' = Raise("APIError")
            /\ UNCHANGED <<result_text, result_json>>
       ELSE /\ result_text' = reply.text
            /\ IF reply.kind = "none"
               THEN /\ outcome' = Raise("TypeError")
                    /\ result_json' = result_json
               ELSE IF ~JsonLoads(reply.text).ok
               THEN /\ outcome' = Raise("JSONDecodeError")
                    /\ result_json' = result_json
               ELSE /\ outcome' = Return(JsonLoads(reply.text).val)
                    /\ result_json' = JsonLoads(reply.text).val
    /\ UNCHANGED <<byteorder, hashseed, op, parserVars, request, resume_text,
                   job_description, prompt, reply, jobs, idx, processed_jobs>>

\* "coverLetter"
KeyCoverLetter == <<99, 111, 118, 101, 114, 76, 101, 116, 116, 101, 114>>

\* CoverLetterGenerator.generate, lines 294-311: the prompt embeds the
\* first 2000 characters of the job description and the first 3000 of the
\* resume
GeneratePrompt ==
    /\ op = "generate"
    /\ pc = "prompt"
    /\ prompt' = [job |-> Take(job_description, JobLimit),
                  resume |-> Take(resume_text, ResumeLimit)]
    /\ pc' = "call"
    /\ UNCHANGED <<byteorder, hashseed, op, parserVars, request, resume_text,
                   job_description, reply, calls, result_text, result_json, jobs,
                   idx, processed_jobs, outcome>>

\* generate, lines 313-324: the model is called, its text parsed and the
\* value under coverLetter returned, '' when there is none; nothing is
\* caught (a value that is no dict has no get)
GenerateCall ==
    /\ op = "generate"
    /\ pc = "call"
    /\ calls' = calls + 1
    /\ pc' = "done"
    /\ IF reply.kind = "error"
       THEN /\ outcome' = Raise("APIError")
            /\ UNCHANGED <<result_text, result_json>>
       ELSE /\ result_text' = reply.text
            /\ IF reply.kind = "none"
               THEN /\ outcome' = Raise("TypeError")
                    /\ result_json' = result_json
               ELSE IF ~JsonLoads(reply.text).ok
               THEN /\ outcome' = Raise("JSONDecodeError")
                    /\ result_json' = result_json
               ELSE /\ result_json' = JsonLoads(reply.text).val
                    /\ outcome' = IF result_json'.t # "obj"
                                  THEN Raise("AttributeError")
                                  ELSE Return(Get(result_json', KeyCoverLetter,
                                                  JStr(<<>>)))
    /\ UNCHANGED <<byteorder, hashseed, op, parserVars, request, resume_text,
                   job_description, prompt, reply, jobs, idx, processed_jobs>>

-----------------------------------------------------------------------------
(* backend/app.py *)

\* the response of a handler: its HTTP status
Http(status) == [kind |-> "http", value |-> status]

\* "[Binary File Content]"
BinaryFileContent ==
    <<91, 66, 105, 110, 97, 114, 121, 32, 70, 105, 108, 101, 32, 67, 111,
      110, 116, 101, 110, 116, 93>>

\* analyze_job_match, lines 163-183: without a file part the answer is 400;
\* else the jobDescription field ('' when absent) and the first 2000
\* characters of the file, read as UTF-8, are put into the prompt
MatchHandlerPrompt ==
    /\ op = "analyze_job_match"
    /\ pc = "prompt"
    /\ IF ~request.has_file
       THEN /\ outcome' = Http(400)
            /\ pc' = "done"
            /\ UNCHANGED <<job_description, prompt>>
       ELSE LET decoded == Utf8From(file_content, 1, FALSE)
                text == IF decoded.ok THEN decoded.text ELSE BinaryFileContent
            IN  /\ job_description' =
                       IF request.has_description THEN request.description
                       ELSE <<>>
                /\ prompt' = [job |-> job_description', resume |-> Take(text, 2000)]
                /\ pc' = "call"
                /\ outcome' = outcome
    /\ UNCHANGED <<byteorder, hashseed, op, parserVars, request, resume_text,
                   reply, calls, result_text, result_json, jobs, idx,
                   processed_jobs>>

\* analyze_job_match, lines 185-196: the model is called and its text
\* parsed; every exception becomes a 500
MatchHandlerCall ==
    /\ op = "analyze_job_match"
    /\ pc = "call"
    /\ calls' = calls + 1
    /\ pc' = "done"
    /\ IF reply.kind = "text" /\ JsonLoads(reply.text).ok
       THEN /\ outcome' = Http(200)
            /\ result_json' = JsonLoads(reply.text).val
       ELSE /\ outcome' = Http(500)
            /\ result_json' = result_json
    /\ UNCHANGED <<byteorder, hashseed, op, parserVars, request, resume_text,
                   job_description, prompt, reply, result_text, jobs, idx,
                   processed_jobs>>

-----------------------------------------------------------------------------
(* The inputs of the text extractor. *)

\* every sequence over S of length at most n
SeqsUpTo(S, n) == UNION {[1..k -> S] : k \in 0..n}

Hi == <<72, 105>>                   \* "Hi"
PaddedHi == <<32, 72, 105, 32>>     \* " Hi "
Blank == <<32>>                     \* " "

\* cv.pdf CV.PDF cv.docx cv.DocX cv.doc CV.DOC cv.txt cv.md cv.markdown
\* cv.bin cv doc cv.pdf.doc
FileNames ==
    { <<99, 118, 46, 112, 100, 102>>, <<67, 86, 46, 80, 68, 70>>,
      <<99, 118, 46, 100, 111, 99, 120>>, <<99, 118, 46, 68, 111, 99, 88>>,
      <<99, 118, 46, 100, 111, 99>>, <<67, 86, 46, 68, 79, 67>>,
      <<99, 118, 46, 116, 120, 116>>, <<99, 118, 46, 109, 100>>,
      <<99, 118, 46, 109, 97, 114, 107, 100, 111, 119, 110>>,
      <<99, 118, 46, 98, 105, 110>>, <<99, 118>>, <<100, 111, 99>>,
      <<99, 118, 46, 112, 100, 102, 46, 100, 111, 99>> }

MimeTypes == {NoneValue, PdfMime, DocxMime, "text/plain", "application/msword"}

\* byte values: space, A, 0x80, 0xA9, 0xC3, 0xD8, 0xE9, 0xFF
ByteVals == {32, 65, 128, 169, 195, 216, 233, 255}

\* code points: space, A, U+00A9, U+00C3, U+00E9, U+20AC
CharVals == {32, 65, 169, 195, 233, 8364}

\* the texts whose encodings are handed to extract_text_from_txt
SourceTexts == SeqsUpTo(CharVals, MaxTextLen)

\* bytes that were not written from a text of the model
NoSource == [text |-> <<>>, encoding |-> "none"]

\* the text files handed to extract_text_from_txt: every byte string up to
\* MaxBytes, and every encoding of a source text
TxtInputs(order) ==
    { [bytes |-> b, source |-> NoSource] : b \in SeqsUpTo(ByteVals, MaxBytes) }
    \cup { [bytes |-> Encode(x[1], encodings[x[2]], order),
            source |-> [text |-> x[1], encoding |-> encodings[x[2]]]] :
             x \in { y \in SourceTexts \X (1..Len(encodings)) :
                       Encodable(y[1], encodings[y[2]]) } }

PageTexts == {<<>>, Blank, <<10>>, Hi, PaddedHi, PdfSentinel, DocxSentinel}

PdfInputs ==
    {Unreadable} \cup {PdfDocument(p) : p \in SeqsUpTo(PageTexts, MaxPages)}

ParaTexts == {<<>>, Blank, Hi, PdfSentinel, DocxSentinel}

CellTexts == {Blank, PaddedHi, DocxSentinel}

\* documents with no table, or one table of one row
DocxInputs ==
    {Unreadable}
    \cup { DocxDocument(p, t) :
             p \in SeqsUpTo(ParaTexts, MaxParas),
             t \in {<<>>} \cup {<< <<row>> >> : row \in SeqsUpTo(CellTexts, MaxCells)} }

\* the uploads handed to parse_resume: the bytes, and what each library
\* makes of them
Uploads ==
    { [bytes |-> Hi, pdf |-> Unreadable, docx |-> Unreadable],
      [bytes |-> <<>>, pdf |-> Unreadable, docx |-> Unreadable],
      [bytes |-> <<233>>, pdf |-> Unreadable, docx |-> Unreadable],
      [bytes |-> <<233, 233>>, pdf |-> Unreadable, docx |-> Unreadable],
      [bytes |-> <<37, 80, 68, 70>>, pdf |-> PdfDocument(<<Hi>>),
       docx |-> Unreadable],
      [bytes |-> <<37, 80, 68, 70>>, pdf |-> PdfDocument(<<<<>>>>),
       docx |-> Unreadable],
      [bytes |-> <<80, 75>>, pdf |-> Unreadable,
       docx |-> DocxDocument(<<Hi>>, <<>>)],
      [bytes |-> <<80, 75>>, pdf |-> Unreadable,
       docx |-> DocxDocument(<<>>, <<>>)] }

-----------------------------------------------------------------------------
(* The inputs of the agents and handlers. *)

HashSeeds == {0, 1}

U1 == <<117, 49>>   \* "u1"

\* LinkedIn Jobs, Monster, 104.com.tw, 1111 Job Bank, Cake, INDEED
PlatformTexts ==
    { <<76, 105, 110, 107, 101, 100, 73, 110, 32, 74, 111, 98, 115>>,
      <<77, 111, 110, 115, 116, 101, 114>>,
      <<49, 48, 52, 46, 99, 111, 109, 46, 116, 119>>,
      <<49, 49, 49, 49, 32, 74, 111, 98, 32, 66, 97, 110, 107>>,
      <<67, 97, 107, 101>>,
      <<73, 78, 68, 69, 69, 68>> }

\* a job entry with a platform and a link
Job(platform, link) == JObj((KeyPlatform :> platform) @@ (KeyLink :> link))

Monster == JStr(<<77, 111, 110, 115, 116, 101, 114>>)

\* the entries a response may hold under jobs: with every platform text;
\* without platform, without link; with a platform or link that is null,
\* a link that is a list, a link made of backticks; and one that is a
\* string instead of an object
JobEntries ==
    { Job(JStr(p), JStr(U1)) : p \in PlatformTexts }
    \cup { JObj(KeyLink :> JStr(U1)),
           JObj(KeyPlatform :> Monster),
           Job(JNull, JStr(U1)),
           Job(Monster, JNull),
           Job(Monster, JArr(<<>>)),
           Job(Monster, JStr(Fence)),
           JStr(<<120>>) }

\* the JSON values a job search may be answered with: an object with up to
\* MaxJobs entries under jobs, one without jobs, one whose jobs is null or
\* a string, and a value that is no object
SearchValues ==
    { JObj(KeyJobs :> JArr(a)) : a \in SeqsUpTo(JobEntries, MaxJobs) }
    \cup { JObj(<<>>),
           JObj(KeySummary :> JStr(Hi)),
           JObj(KeyJobs :> JNull),
           JObj(KeyJobs :> JStr(Hi)),
           JArr(<<>>) }

\* the values that are also sent inside a fence
FencedSearchValues ==
    { JObj(KeyJobs :> JArr(<<>>)),
      JObj(KeyJobs :> JArr(<<Job(JStr(Hi), JStr(U1))>>)),
      JObj(KeyJobs :> JArr(<<Job(Monster, JStr(Fence))>>)),
      JObj(<<>>) }

Sorry == <<83, 111, 114, 114, 121>>   \* "Sorry"

SearchReplies ==
    { JsonReply("plain", v) : v \in SearchValues }
    \cup { JsonReply(f, v) : f \in {"json", "bare", "prose"}, v \in FencedSearchValues }
    \cup { ApiError, NoText, TextReply(<<>>), TextReply(Sorry),
           TextReply(JsonFence \o <<10>> \o Sorry \o <<10>> \o Fence) }

\* the profiles a resume analysis may be answered with: each required key
\* present or missing, name also null, and a key that is not required
ProfileValues ==
    { JObj(n @@ su @@ sk @@ ro @@ x) :
        n \in {<<>>, KeyName :> JStr(Hi), KeyName :> JNull},
        su \in {<<>>, KeySummary :> JStr(Hi)},
        sk \in {<<>>, KeySkills :> JArr(<<JStr(Hi)>>), KeySkills :> JArr(<<>>)},
        ro \in {<<>>, KeySuggestedRoles :> JArr(<<JStr(Hi)>>)},
        x \in {<<>>, KeyId :> JNum(7)} }

FencedProfileValues ==
    { JObj(KeyName :> JStr(Hi)),
      JObj((KeyName :> JStr(Hi)) @@ (KeySummary :> JStr(Hi))
           @@ (KeySkills :> JArr(<<>>)) @@ (KeySuggestedRoles :> JArr(<<>>))) }

AnalyzeReplies ==
    { JsonReply("plain", v) : v \in ProfileValues }
    \cup { JsonReply(f, v) : f \in {"json", "bare"}, v \in FencedProfileValues }
    \cup { JsonReply("plain", v) :
             v \in {JArr(<<>>), JStr(Hi), JNull, JNum(7),
                    JArr(<<JStr(KeyName), JStr(KeySummary), JStr(KeySkills),
                           JStr(KeySuggestedRoles)>>)} }
    \cup { ApiError, NoText, TextReply(<<>>), TextReply(Sorry) }

\* {"matchScore": 75}
MatchValue ==
    JObj(<<109, 97, 116, 99, 104, 83, 99, 111, 114, 101>> :> JNum(75))

MatchReplies ==
    { JsonReply("plain", MatchValue), JsonReply("json", MatchValue),
      ApiError, NoText, TextReply(Sorry) }

\* a text of n characters
Long(n) == [i \in 1..n |-> 65]

\* texts as long as a limit, and one character longer
Around(limit) == {Long(limit), Long(limit + 1)}

\* {"coverLetter": "Hi"}, {} and [] among the answers to a cover letter
GenerateReplies ==
    { JsonReply("plain", JObj(KeyCoverLetter :> JStr(Hi))),
      JsonReply("plain", JObj(<<>>)),
      JsonReply("plain", JArr(<<>>)),
      JsonReply("json", JObj(KeyCoverLetter :> JStr(Hi))),
      ApiError, NoText, TextReply(Sorry) }

\* a request of a handler that reads a file part and a jobDescription field
NoRequest == [has_file |-> FALSE, has_description |-> FALSE, description |-> <<>>]

MatchRequests ==
    { [has_file |-> f, has_description |-> TRUE, description |-> d] :
        f \in BOOLEAN, d \in {<<>>, Hi} }
    \cup { [has_file |-> f, has_description |-> FALSE, description |-> <<>>] :
             f \in BOOLEAN }

-----------------------------------------------------------------------------
(* The state machine. *)

\* the variables of the agents and handlers, for a call of the extractor
AgentIdle ==
    /\ hashseed = 0
    /\ request = NoRequest
    /\ resume_text = <<>>
    /\ job_description = <<>>
    /\ reply = NoText

\* the variables of the extractor, for a call of an agent
ExtractorIdle ==
    /\ byteorder = "little"
    /\ filename = <<>>
    /\ mime_type = NoneValue
    /\ file_content = <<>>
    /\ source = NoSource
    /\ pdf_view = Unreadable
    /\ docx_view = Unreadable

InitParseResume ==
    /\ op = "parse_resume"
    /\ pc = "dispatch"
    /\ byteorder \in {"little", "big"}
    /\ filename \in FileNames
    /\ mime_type \in MimeTypes
    /\ source = NoSource
    /\ \E u \in Uploads :
          /\ file_content = u.bytes
          /\ pdf_view = u.pdf
          /\ docx_view = u.docx
    /\ AgentIdle

InitExtractTxt ==
    /\ op = "extract_text_from_txt"
    /\ pc = "extract_txt"
    /\ byteorder \in {"little", "big"}
    /\ filename = <<>>
    /\ mime_type = NoneValue
    /\ \E f \in TxtInputs(byteorder) :
          /\ file_content = f.bytes
          /\ source = f.source
    /\ pdf_view = Unreadable
    /\ docx_view = Unreadable
    /\ AgentIdle

InitExtractPdf ==
    /\ op = "extract_text_from_pdf"
    /\ pc = "extract_pdf"
    /\ byteorder = "little"
    /\ filename = <<>>
    /\ mime_type = NoneValue
    /\ file_content = <<37, 80, 68, 70>>
    /\ source = NoSource
    /\ pdf_view \in PdfInputs
    /\ docx_view = Unreadable
    /\ AgentIdle

InitExtractDocx ==
    /\ op = "extract_text_from_docx"
    /\ pc = "extract_docx"
    /\ byteorder = "little"
    /\ filename = <<>>
    /\ mime_type = NoneValue
    /\ file_content = <<80, 75>>
    /\ source = NoSource
    /\ pdf_view = Unreadable
    /\ docx_view \in DocxInputs
    /\ AgentIdle

\* JobSearchAgent.search_jobs; its arguments roles, skills and location
\* go into the query text only and are left out
InitSearchJobs ==
    /\ op = "search_jobs"
    /\ pc = "call"
    /\ hashseed \in HashSeeds
    /\ reply \in SearchReplies
    /\ request = NoRequest
    /\ resume_text = <<>>
    /\ job_description = <<>>
    /\ ExtractorIdle

\* ResumeAnalyzer.analyze
InitAnalyze ==
    /\ op = "analyze"
    /\ pc = "call"
    /\ hashseed = 0
    /\ \/ reply \in AnalyzeReplies /\ resume_text \in {<<>>, Hi}
       \/ /\ reply \in {ApiError, JsonReply("plain", JObj(KeyName :> JStr(Hi)))}
          /\ resume_text \in Around(AnalyzeLimit)
    /\ request = NoRequest
    /\ job_description = <<>>
    /\ ExtractorIdle

\* JobMatchAnalyzer.analyze_match
InitAnalyzeMatch ==
    /\ op = "analyze_match"
    /\ pc = "prompt"
    /\ hashseed = 0
    /\ \/ /\ reply \in MatchReplies
          /\ resume_text \in {<<>>, Hi}
          /\ job_description \in {<<>>, Hi}
       \/ /\ reply = JsonReply("plain", MatchValue)
          /\ resume_text \in {Hi} \cup Around(ResumeLimit)
          /\ job_description \in {Hi} \cup Around(JobLimit)
    /\ request = NoRequest
    /\ ExtractorIdle

\* CoverLetterGenerator.generate
InitGenerate ==
    /\ op = "generate"
    /\ pc = "prompt"
    /\ hashseed = 0
    /\ \/ /\ reply \in GenerateReplies
          /\ resume_text \in {<<>>, Hi}
          /\ job_description \in {<<>>, Hi}
       \/ /\ reply = JsonReply("plain", JObj(KeyCoverLetter :> JStr(Hi)))
          /\ resume_text \in {Hi} \cup Around(ResumeLimit)
          /\ job_description \in {Hi} \cup Around(JobLimit)
    /\ request = NoRequest
    /\ ExtractorIdle

\* the handler analyze_job_match of app.py
InitMatchHandler ==
    /\ op = "analyze_job_match"
    /\ pc = "prompt"
    /\ hashseed = 0
    /\ reply \in MatchReplies
    /\ request \in MatchRequests
    /\ resume_text = <<>>
    /\ job_description = <<>>
    /\ byteorder = "little"
    /\ filename = <<>>
    /\ mime_type = NoneValue
    /\ file_content \in {Hi, <<233>>}
    /\ source = NoSource
    /\ pdf_view = Unreadable
    /\ docx_view = Unreadable

Init ==
    /\ branch = "none"
    /\ enc_idx = 1
    /\ prompt = [job |-> <<>>, resume |-> <<>>]
    /\ calls = 0
    /\ result_text = <<>>
    /\ result_json = JNull
    /\ jobs = <<>>
    /\ idx = 0
    /\ processed_jobs = <<>>
    /\ outcome = NoOutcome
    /\ \/ InitParseResume
       \/ InitExtractTxt
       \/ InitExtractPdf
       \/ InitExtractDocx
       \/ InitSearchJobs
       \/ InitAnalyze
       \/ InitAnalyzeMatch
       \/ InitGenerate
       \/ InitMatchHandler

Next ==
    \/ Dispatch
    \/ ExtractPdf
    \/ ExtractDocx
    \/ TryEncoding
    \/ SearchCall
    \/ SearchParse
    \/ SearchLoop
    \/ AnalyzeCall
    \/ AnalyzeParse
    \/ MatchPrompt
    \/ MatchCall
    \/ GeneratePrompt
    \/ GenerateCall
    \/ MatchHandlerPrompt
    \/ MatchHandlerCall

Spec == Init /\ [][Next]_vars

-----------------------------------------------------------------------------
(* Properties of the text extractor. *)

Finished(f) == op = f /\ pc = "done"

\* filename ends with suffix, whatever the case of its letters
HasExtension(suffix) == EndsWith(Lower(filename), suffix)

\* C1 as stated: a call of parse_resume with a filename ending in .doc
\* raises ValueError, whatever the content and the declared MIME type.
C1_DocAlwaysRejected ==
    (Finished("parse_resume") /\ HasExtension(DotDoc))
        => outcome = Raise("ValueError")

\* C1, amended: a call of parse_resume with a filename ending in .doc and a
\* declared MIME type that is neither the PDF nor the DOCX type raises
\* ValueError, whatever the content.
C1_DocRejectedUnlessMime ==
    (Finished("parse_resume") /\ HasExtension(DotDoc)
       /\ mime_type \notin {PdfMime, DocxMime})
        => outcome = Raise("ValueError")

\* CV.DOC declared as application/msword was rejected
C1_Witness ==
    /\ Finished("parse_resume")
    /\ filename = <<67, 86, 46, 68, 79, 67>>
    /\ mime_type = "application/msword"
    /\ outcome = Raise("ValueError")

\* file_content is a text of the model written in a supported encoding
EncodedText ==
    /\ source.encoding \in {"utf-8", "utf-16", "latin-1", "cp1252"}
    /\ file_content = Encode(source.text, source.encoding, byteorder)

\* C2 as stated: extract_text_from_txt applied to a text encoded in one of
\* the four supported encodings returns exactly that text.
C2_RoundTripExact ==
    (Finished("extract_text_from_txt") /\ EncodedText)
        => outcome = Return(source.text)

\* whether the bytes of a Latin-1 or Windows-1252 text reach the Latin-1
\* decoder and mean the same there: they are ASCII, or they are neither
\* UTF-8 nor UTF-16 and hold no byte 0x80..0x9F
ReadAsLatin1(bs) ==
    \/ \A i \in 1..Len(bs) : bs[i] < 128
    \/ /\ ~Utf8From(bs, 1, FALSE).ok
       /\ ~Utf16Decode(bs, byteorder).ok
       /\ \A i \in 1..Len(bs) : bs[i] \notin 128..159

\* C2, amended: the result is the text with its leading and trailing
\* whitespace removed, for UTF-8 and for UTF-16 with a byte order mark; for
\* Latin-1 and Windows-1252 only when the bytes are ASCII, or are neither
\* valid UTF-8 nor valid UTF-16 and hold no byte 0x80..0x9F.
C2_RoundTripStripped ==
    (Finished("extract_text_from_txt") /\ EncodedText
       /\ (source.encoding \in {"utf-8", "utf-16"} \/ ReadAsLatin1(file_content)))
        => outcome = Return(Strip(source.text))

\* the UTF-16 encoding of "A " + U+20AC was decoded, at the second attempt,
\* to "A " + U+20AC
C2_Witness ==
    /\ Finished("extract_text_from_txt")
    /\ source = [text |-> <<65, 8364>>, encoding |-> "utf-16"]
    /\ EncodedText
    /\ enc_idx = 2
    /\ outcome = Return(<<65, 8364>>)

\* the call is a text decoding: extract_text_from_txt itself, or
\* parse_resume with a filename that ends in none of .pdf, .docx, .doc and
\* a MIME type that is neither the PDF nor the DOCX type
TextDecodingCall ==
    \/ op = "extract_text_from_txt"
    \/ /\ op = "parse_resume"
       /\ mime_type \notin {PdfMime, DocxMime}
       /\ ~HasExtension(DotPdf) /\ ~HasExtension(DotDocx) /\ ~HasExtension(DotDoc)

\* the decoding of bs by the first of UTF-8, UTF-16, Latin-1, Windows-1252
\* that accepts it, and the lossy UTF-8 decoding when none does
FirstDecoding(bs) ==
    LET order == <<"utf-8", "utf-16", "latin-1", "cp1252">>
        good == {i \in 1..4 : Decode(bs, order[i], byteorder).ok}
    IN  IF good = {} THEN Utf8From(bs, 1, TRUE).text
        ELSE Decode(bs, order[CHOOSE i \in good : \A j \in good : i <= j],
                    byteorder).text

\* C3: a text decoding never raises; it returns the decoding (stripped) by
\* the first of UTF-8, UTF-16, Latin-1, Windows-1252 that accepts the bytes,
\* and the UTF-8 decoding with replacement when none does.
C3_TextNeverRaises ==
    /\ (TextDecodingCall /\ pc = "done")
           => outcome = Return(Strip(FirstDecoding(file_content)))
    /\ (TextDecodingCall /\ pc # "done")
           => (outcome.kind = "none" /\ ENABLED Next)

\* the byte 0xE9 is neither UTF-8 nor UTF-16: Latin-1, the third, decoded it
C3_Witness ==
    /\ Finished("extract_text_from_txt")
    /\ file_content = <<233>>
    /\ enc_idx = 3
    /\ outcome = Return(<<233>>)

\* nothing but whitespace in any of the texts
AllBlank(texts) == \A i \in 1..Len(texts) : \A j \in 1..Len(texts[i]) : IsSpace(texts[i][j])

\* the texts of a parsed document: its pages, or its paragraphs and cells
PartsOf(view) == view.pages \o view.paragraphs \o Concat(Concat(view.tables))

Sentinels == {PdfSentinel, DocxSentinel}

\* the sentinel of the format a finished extraction was for
SentinelHere ==
    IF op = "extract_text_from_pdf" THEN PdfSentinel ELSE DocxSentinel

ViewHere == IF op = "extract_text_from_pdf" THEN pdf_view ELSE docx_view

ParsedDocument ==
    /\ op \in {"extract_text_from_pdf", "extract_text_from_docx"}
    /\ pc = "done"
    /\ ViewHere.ok

\* C4 as stated: for a parsed PDF or DOCX the result is the format's
\* sentinel exactly when the document has no text; with text the result is
\* non-empty and neither sentinel.
C4_SentinelIffNoText ==
    ParsedDocument =>
        /\ outcome.kind = "return"
        /\ (outcome.value = SentinelHere) <=> AllBlank(PartsOf(ViewHere))
        /\ ~AllBlank(PartsOf(ViewHere))
               => (outcome.value # <<>> /\ outcome.value \notin Sentinels)

\* C4, amended: for a parsed PDF or DOCX without text the result is the
\* format's sentinel, returned and not raised; with text the result is
\* non-empty, and it is a sentinel string only when that very string stands
\* in the document's own text.
C4_SentinelWhenNoText ==
    ParsedDocument =>
        /\ outcome.kind = "return"
        /\ AllBlank(PartsOf(ViewHere)) => outcome.value = SentinelHere
        /\ ~AllBlank(PartsOf(ViewHere))
               => /\ outcome.value # <<>>
                  /\ outcome.value \in Sentinels
                        => \E i \in 1..Len(PartsOf(ViewHere)) :
                              Contains(PartsOf(ViewHere)[i], outcome.value)

\* a PDF of two pages without text gave the PDF sentinel
C4_Witness ==
    /\ Finished("extract_text_from_pdf")
    /\ pdf_view = PdfDocument(<<Blank, <<>>>>)
    /\ outcome = Return(PdfSentinel)

RulePdf == HasExtension(DotPdf) \/ mime_type = PdfMime

RuleDocx == HasExtension(DotDocx) \/ mime_type = DocxMime

RuleDoc == HasExtension(DotDoc)

\* C5: parse_resume takes the branch of the first rule that matches, in the
\* order PDF, DOCX, legacy .doc, text, and runs that branch alone.
C5_DispatchPriority ==
    (op = "parse_resume" /\ pc # "dispatch") =>
        /\ RulePdf => branch = "pdf"
        /\ (~RulePdf /\ RuleDocx) => branch = "docx"
        /\ (~RulePdf /\ ~RuleDocx /\ RuleDoc) => branch = "doc"
        /\ (~RulePdf /\ ~RuleDocx /\ ~RuleDoc) => branch \in {"text", "unknown"}
        /\ pc = "done" =>
              outcome = CASE branch = "pdf" -> extract_text_from_pdf(pdf_view)
                          [] branch = "docx" -> extract_text_from_docx(docx_view)
                          [] branch = "doc" -> Raise("ValueError")
                          [] OTHER -> Return(Strip(FirstDecoding(file_content)))

\* cv.doc declared as a PDF went to the PDF extractor
C5_Witness ==
    /\ Finished("parse_resume")
    /\ filename = <<99, 118, 46, 100, 111, 99>>
    /\ mime_type = PdfMime
    /\ branch = "pdf"
    /\ outcome = extract_text_from_pdf(pdf_view)

-----------------------------------------------------------------------------
(* Properties of the response normaliser. *)

\* the model wrote the JSON object reply.content, as it is or in a fence
\* of its own around all of the text
WroteObject ==
    /\ reply.kind = "text"
    /\ reply.fence \in {"plain", "json", "bare"}
    /\ reply.content.t = "obj"

\* the listings of the entries under jobs, each entry passed through the
\* loop body at its position; the first exception when a pass raises
ListingsOf(entries, seed) ==
    LET passes == [i \in 1..Len(entries) |-> ProcessJob(entries[i], i - 1, seed)]
    IN  IF \E i \in 1..Len(entries) : passes[i].kind # "return"
        THEN passes[CHOOSE i \in 1..Len(entries) :
                      /\ passes[i].kind # "return"
                      /\ \A j \in 1..(i - 1) : passes[j].kind = "return"]
        ELSE Return([i \in 1..Len(entries) |-> passes[i].value])

\* what the JSON object v gives once it is parsed: the listings in job
\* search (v holds a list under jobs, or no jobs), the filled profile in
\* profile analysis
ResultOf(v) ==
    IF op = "search_jobs"
    THEN ListingsOf(Get(v, KeyJobs, JArr(<<>>)).v, hashseed)
    ELSE Return(JObj(FillRequired(v.v)))

\* C6 as stated: for a JSON object J of the model, the result is the same
\* for the text J, for J in a ```json fence and for J in a ``` fence, in
\* job search and in profile analysis: each gives what the parsed J gives.
C6_FenceIsTransparent ==
    ( /\ Finished("search_jobs") \/ Finished("analyze")
      /\ WroteObject
      /\ Get(reply.content, KeyJobs, JArr(<<>>)).t = "arr" )
        => outcome = ResultOf(reply.content)

\* the four required keys of a profile
RequiredKeys == {KeyName, KeySummary, KeySkills, KeySuggestedRoles}

\* C7: for a JSON object of the model that parses, analyze returns a
\* profile with the four keys name, summary, skills and suggestedRoles: a
\* missing skills or suggestedRoles is the empty list, a missing name or
\* summary is "Unknown", every key that was present keeps its value, no
\* other key is added, and no exception is raised.
C7_RequiredFieldsFilled ==
    ( /\ Finished("analyze")
      /\ reply.kind = "text"
      /\ reply.fence = "plain"
      /\ reply.content.t = "obj" )
        => LET given == reply.content.v
           IN  /\ outcome.kind = "return"
               /\ outcome.value.t = "obj"
               /\ DOMAIN outcome.value.v = DOMAIN given \cup RequiredKeys
               /\ \A k \in DOMAIN given : outcome.value.v[k] = given[k]
               /\ \A k \in {KeySkills, KeySuggestedRoles} \ DOMAIN given :
                     outcome.value.v[k] = JArr(<<>>)
               /\ \A k \in {KeyName, KeySummary} \ DOMAIN given :
                     outcome.value.v[k] = JStr(Unknown)

\* a profile without name and suggestedRoles and with an empty skills list
\* came back with both filled and the list as it was
C7_Witness ==
    /\ Finished("analyze")
    /\ reply.fence = "plain"
    /\ reply.content = JObj((KeySummary :> JStr(Hi)) @@ (KeySkills :> JArr(<<>>)))
    /\ outcome = Return(JObj((KeySummary :> JStr(Hi)) @@ (KeySkills :> JArr(<<>>))
                             @@ (KeyName :> JStr(Unknown))
                             @@ (KeySuggestedRoles :> JArr(<<>>))))

Indeed == <<73, 110, 100, 101, 101, 100>>   \* "Indeed"

\* the platform names of a JobListing
Platforms ==
    { <<49, 48, 52>>, <<49, 49, 49, 49>>,
      <<67, 97, 107, 101, 82, 101, 115, 117, 109, 101>>,
      <<76, 105, 110, 107, 101, 100, 73, 110>>, Indeed, Other }

\* the platform name the platform text stands for: the first pattern the
\* text holds, letters of either case, and Other when it holds none
PlatformFor(text) ==
    LET lower == Lower(text)
    IN  IF Contains(lower, <<49, 48, 52>>) THEN <<49, 48, 52>>
        ELSE IF Contains(lower, <<49, 49, 49, 49>>) THEN <<49, 49, 49, 49>>
        ELSE IF Contains(lower, <<99, 97, 107, 101>>)
        THEN <<67, 97, 107, 101, 82, 101, 115, 117, 109, 101>>
        ELSE IF Contains(lower, <<108, 105, 110, 107, 101, 100, 105, 110>>)
        THEN <<76, 105, 110, 107, 101, 100, 73, 110>>
        ELSE IF Contains(lower, <<105, 110, 100, 101, 101, 100>>) THEN Indeed
        ELSE Other

\* C8 as stated: every entry that search_jobs has processed carries the
\* platform name of its platform text: "104", "1111", "CakeResume",
\* "LinkedIn" or "Indeed" for a text that holds the pattern (letters of
\* either case), "Other" only for a text that holds none.
C8_PlatformNormalised ==
    op = "search_jobs" =>
        \A i \in 1..Len(processed_jobs) :
            LET given == Get(jobs[i], KeyPlatform, JStr(Other))
            IN  processed_jobs[i].v[KeyPlatform] = JStr(PlatformFor(given.v))

\* C9 as stated: for a response whose jobs key holds n entries (JSON
\* objects), search_jobs returns n listings in the order of the entries,
\* each with a non-empty id and a platform of the enumeration; for a
\* response without jobs it returns the empty list.
C9_OneListingPerEntry ==
    ( /\ Finished("search_jobs")
      /\ reply.kind = "text"
      /\ reply.fence = "plain"
      /\ reply.content.t = "obj" )
        => LET given == reply.content
           IN  /\ KeyJobs \notin DOMAIN given.v => outcome = Return(<<>>)
               /\ ( /\ KeyJobs \in DOMAIN given.v
                    /\ given.v[KeyJobs].t = "arr"
                    /\ \A i \in 1..Len(given.v[KeyJobs].v) :
                          given.v[KeyJobs].v[i].t = "obj" )
                    => LET entries == given.v[KeyJobs].v
                       IN  /\ outcome.kind = "return"
                           /\ Len(outcome.value) = Len(entries)
                           /\ \A i \in 1..Len(entries) :
                                 LET listing == outcome.value[i].v
                                 IN  /\ listing[KeyId].t = "str"
                                     /\ listing[KeyId].v # <<>>
                                     /\ listing[KeyPlatform].t = "str"
                                     /\ listing[KeyPlatform].v \in Platforms
                                     /\ \A k \in DOMAIN entries[i].v
                                              \ {KeyId, KeyPlatform} :
                                           listing[k] = entries[i].v[k]

\* the request of a match analysis has an empty jobDescription, or none
EmptyJobDescription ==
    \/ op = "analyze_match" /\ job_description = <<>>
    \/ /\ op = "analyze_job_match"
       /\ ~request.has_description \/ request.description = <<>>

\* C10 as stated: a match analysis whose jobDescription is empty or absent
\* calls the external model at no point, and ends rejected with a
\* 400-class error.
C10_EmptyDescriptionRejected ==
    EmptyJobDescription =>
        /\ calls = 0
        /\ pc = "done" => (outcome = Http(400) \/ outcome = Raise("ValueError"))

-----------------------------------------------------------------------------
(* Properties of the failure handling. *)

\* the model answered with a text that is no JSON, with or without the
\* whitespace around it, and whose fenced part, if it has one, is none
\* either
NotJson ==
    /\ reply.kind = "text"
    /\ ~JsonLoads(reply.text).ok
    /\ ~JsonLoads(Strip(reply.text)).ok
    /\ ~JsonLoads(Strip(StripFence(reply.text))).ok

\* C11: when the text of the model cannot be parsed as JSON, search_jobs
\* returns the empty list and raises nothing, and analyze ends in an
\* error and returns no profile.
C11_ParseFailureFlows ==
    /\ (Finished("search_jobs") /\ NotJson) => outcome = Return(<<>>)
    /\ (Finished("analyze") /\ NotJson) => outcome.kind \notin {"return", "none"}

\* the answer "Sorry" ended a profile analysis with a RuntimeError
C11_Witness ==
    /\ Finished("analyze")
    /\ reply = TextReply(Sorry)
    /\ outcome = Raise("RuntimeError")

\* the answer "Sorry" ended a job search with the empty list
C11_WitnessSearch ==
    /\ Finished("search_jobs")
    /\ reply = TextReply(Sorry)
    /\ outcome = Return(<<>>)

\* the model wrote a JSON value that is not an object with a list under
\* jobs, or with no jobs
BadShape ==
    /\ reply.kind = "text"
    /\ reply.fence # "none"
    /\ \/ reply.content.t # "obj"
       \/ Get(reply.content, KeyJobs, JArr(<<>>)).t # "arr"

\* the model wrote an object whose list of jobs has an entry that is no
\* object, or whose platform is no string, or whose link cannot be hashed
BadEntry ==
    /\ reply.kind = "text"
    /\ reply.fence # "none"
    /\ reply.content.t = "obj"
    /\ Get(reply.content, KeyJobs, JArr(<<>>)).t = "arr"
    /\ \E i \in 1..Len(Get(reply.content, KeyJobs, JArr(<<>>)).v) :
          LET entry == Get(reply.content, KeyJobs, JArr(<<>>)).v[i]
          IN  \/ entry.t # "obj"
              \/ Get(entry, KeyPlatform, JStr(Other)).t # "str"
              \/ Get(entry, KeyLink, JStr(<<>>)).t \in {"arr", "obj"}

\* C12 as stated: search_jobs never ends with an error raised to the
\* caller, and it returns the empty list when the call of the model fails,
\* when the text is no JSON, when the JSON has not the expected shape and
\* when an entry's platform or link cannot be normalised.
C12_SearchFailuresGiveEmptyList ==
    Finished("search_jobs") =>
        /\ outcome.kind = "return"
        /\ (reply.kind = "error" \/ NotJson \/ BadShape \/ BadEntry)
               => outcome.value = <<>>

\* the operations that send a request to the model
RequestOps ==
    {"search_jobs", "analyze", "analyze_match", "generate", "analyze_job_match"}

\* C13: a request calls the model at most once; when the call fails the
\* request is over, and a request that is over takes no further step, so
\* that nothing is tried again.
C13_AtMostOneCall ==
    op \in RequestOps =>
        /\ calls \in {0, 1}
        /\ (calls = 1 /\ reply.kind = "error") =>
               (pc = "done" /\ outcome.kind \notin {"return", "none"})
        /\ pc = "done" => ~ENABLED Next

\* a profile analysis whose call failed is over after that one call
C13_Witness ==
    /\ Finished("analyze")
    /\ reply = ApiError
    /\ calls = 1
    /\ outcome = Raise("APIError")

-----------------------------------------------------------------------------
(* Properties of the prompts. *)

\* shown is how a prompt is to embed text under the limit max: a text longer
\* than max as its first max characters and a marker after them, any other
\* text as it is
Embedded(text, max, shown) ==
    IF Len(text) > max
    THEN Len(shown) > max /\ Take(shown, max) = Take(text, max)
    ELSE shown = text

\* C14 as stated: the prompt of a profile analysis embeds the resume under
\* the limit of 6000 characters, and the prompt of a match analysis or a
\* cover letter embeds the resume under 3000 and the job description under
\* 2000: a longer text is cut to the limit and followed by a marker, any
\* other text is embedded unchanged.
C14_TruncationMarked ==
    /\ (op = "analyze" /\ pc # "call")
           => Embedded(resume_text, 6000, prompt.resume)
    /\ (op \in {"analyze_match", "generate"} /\ pc # "prompt")
           => /\ Embedded(resume_text, 3000, prompt.resume)
              /\ Embedded(job_description, 2000, prompt.job)

-----------------------------------------------------------------------------
(* Properties of the identifiers. *)

\* the entry reduced to its link: an entry with the link alone, or empty
\* when it has none
LinkOnly(entry) ==
    JObj([k \in DOMAIN entry.v \cap {KeyLink} |-> entry.v[k]])

\* C15: within one response of search_jobs, entries at different positions
\* have different ids, whether or not their links are equal or missing, and
\* the id of an entry is the one an entry with nothing but that link gets
\* at that position.
C15_IdOfPositionAndLink ==
    op = "search_jobs" =>
        /\ \A i, j \in 1..Len(processed_jobs) :
              i # j => processed_jobs[i].v[KeyId] # processed_jobs[j].v[KeyId]
        /\ \A i \in 1..Len(processed_jobs) :
              processed_jobs[i].v[KeyId] =
                  ProcessJob(LinkOnly(jobs[i]), i - 1, hashseed).value.v[KeyId]

\* two entries with the link "u1", of Monster and of Cake, came back with
\* different ids
C15_Witness ==
    /\ Finished("search_jobs")
    /\ Len(processed_jobs) = 2
    /\ jobs = <<Job(Monster, JStr(U1)), Job(JStr(<<67, 97, 107, 101>>), JStr(U1))>>
    /\ processed_jobs[1].v[KeyId] # processed_jobs[2].v[KeyId]
    /\ outcome = Return(processed_jobs)

=============================================================================
